---- MODULE Spec2Model ----
(***************************************************************************)
(* A model of the part-db-importer repository:                             *)
(*   src/convert-lcsc-export.py  the Field Extractor                       *)
(*   src/importer.py             the Catalog Importer (LCSCImporter, main) *)
(* Text is modelled as a sequence of one-character strings, so that        *)
(* trimming, splitting, substring search and parsing are computed.         *)
(***************************************************************************)
EXTENDS Integers, Sequences, FiniteSets, TLC

(***************************************************************************)
(* Bounds of the model.                                                    *)
(***************************************************************************)
\* longest help text given to parse_lcsc_category
MaxTextLen == 6
\* most data rows of the table given to extract_lcsc_and_quantity
MaxTableRows == 2
\* most cells of one row of that table
MaxCells == 3
\* most rows of the CSV file given to the importer
MaxCsvRows == 2
\* most records the catalog holds before the first run
MaxPreexisting == 1

(***************************************************************************)
(* Text helpers (Python str methods and the re module, as used).           *)
(***************************************************************************)
NL == "\n"

\* str.strip() and \s treat these as whitespace
IsSpace(c) == c \in {" ", NL}

Digits == {"0", "1", "2", "3", "4", "5", "6", "7", "8", "9"}

RECURSIVE LStrip(_)
LStrip(s) == IF s # <<>> /\ IsSpace(Head(s)) THEN LStrip(Tail(s)) ELSE s

RECURSIVE RStrip(_)
RStrip(s) ==
    IF s # <<>> /\ IsSpace(s[Len(s)]) THEN RStrip(SubSeq(s, 1, Len(s) - 1)) ELSE s

\* str.strip()
Strip(s) == RStrip(LStrip(s))

\* t occurs in s at position p
OccursAt(s, t, p) ==
    /\ p >= 1
    /\ p + Len(t) - 1 <= Len(s)
    /\ SubSeq(s, p, p + Len(t) - 1) = t

\* the "in" operator on strings, and the CSS attribute selector [href*="t"]
Contains(s, t) == \E p \in 1..(Len(s) + 1) : OccursAt(s, t, p)

Max(S) == CHOOSE x \in S : \A y \in S : y <= x

Min(S) == CHOOSE x \in S : \A y \in S : x <= y

\* the sequences over S of length at most n
SeqsUpTo(S, n) == UNION {[1..k -> S] : k \in 0..n}

Arrow == <<"-", ">">>

\* str.split('->'): non-overlapping separators, left to right
RECURSIVE SplitArrow(_)
SplitArrow(s) ==
    LET hits == {p \in 1..Len(s) : OccursAt(s, Arrow, p)}
    IN  IF hits = {}
        THEN <<s>>
        ELSE LET p == Min(hits)
             IN  <<SubSeq(s, 1, p - 1)>> \o SplitArrow(SubSeq(s, p + 2, Len(s)))

\* [p.strip() for p in parts]
StripAll(parts) == [i \in 1..Len(parts) |-> Strip(parts[i])]

(***************************************************************************)
(* State.                                                                  *)
(***************************************************************************)
VARIABLES
    help_text,      \* parse_lcsc_category: its argument
    catPc,          \* parse_lcsc_category: "call" or "returned"
    catResult,      \* parse_lcsc_category: the returned (parent, leaf)
    fieldnames,     \* extract_lcsc_and_quantity: the header row of the reader
    rowsRead,       \* extract_lcsc_and_quantity: the data rows read so far
    out,            \* extract_lcsc_and_quantity: the lines written to out
    exPc,           \* extract_lcsc_and_quantity: "reading", "raised", "done"
    csv_exists,     \* importer: whether csv_path names a file
    csv_rows,       \* importer: the rows of that file, as csv.reader gives them
    catalog,        \* the external catalog: record i is the list of its supplier links
    session,        \* the catalog's session: "none", "valid", "expired"
    run,            \* which run of the importer this is
    pc,             \* main: where the run is
    exit_code,      \* main: -1 while running, then the process's exit status
    launched,       \* authenticate: the browser was launched and the login page opened
    parts,          \* main: the list load_parts_csv returned
    idx,            \* import_parts: the position of the loop in parts
    success_count,  \* self.success_count
    skipped_count,  \* self.skipped_count
    fail_count,     \* self.fail_count
    failed_parts,   \* self.failed_parts
    results,        \* check_part_exists: the hrefs of the search page's part links
    link_i,         \* check_part_exists: the position of "for link in part_links"
    on_search,      \* check_part_exists: the page still shows the search results
    exists,         \* check_part_exists: "unknown", then what it returned
    inspected,      \* history: the link texts the current check compared
    check_err,      \* history: "none", "fault" or "stale": what the check's except caught
    attempted,      \* history: the create page was requested for the current part
    log,            \* history: the identifiers process_single_part was called with
    outcomes,       \* history: the statuses process_single_part returned
    first_outcomes, \* history: the outcomes of the first run
    auth_err_at,    \* history: the call that saw the session expired, 0 when none
    faults          \* history: the catalog failed or the session expired in this run

catVars == <<help_text, catPc, catResult>>

exVars == <<fieldnames, rowsRead, out, exPc>>

inputVars == <<csv_exists, csv_rows>>

tallyVars == <<success_count, skipped_count, fail_count, failed_parts>>

checkVars == <<results, link_i, on_search, exists, inspected, check_err>>

mainVars ==
    <<inputVars, catalog, session, run, pc, exit_code, launched, parts, idx,
      tallyVars, checkVars, attempted, log, outcomes, first_outcomes,
      auth_err_at, faults>>

vars == <<catVars, exVars, mainVars>>

\* the importer is not running
MainIdle ==
    /\ csv_exists = FALSE
    /\ csv_rows = <<>>
    /\ catalog = <<>>
    /\ session = "none"
    /\ run = 0
    /\ pc = "idle"
    /\ exit_code = -1
    /\ launched = FALSE
    /\ parts = <<>>
    /\ idx = 0
    /\ success_count = 0
    /\ skipped_count = 0
    /\ fail_count = 0
    /\ failed_parts = <<>>
    /\ results = <<>>
    /\ link_i = 0
    /\ on_search = FALSE
    /\ exists = "unknown"
    /\ inspected = {}
    /\ check_err = "none"
    /\ attempted = FALSE
    /\ log = <<>>
    /\ outcomes = <<>>
    /\ first_outcomes = <<>>
    /\ auth_err_at = 0
    /\ faults = FALSE

\* parse_lcsc_category is not running
CatIdle ==
    /\ help_text = <<>>
    /\ catPc = "idle"
    /\ catResult = <<<<>>, <<>>>>

\* extract_lcsc_and_quantity is not running
ExIdle ==
    /\ fieldnames = <<>>
    /\ rowsRead = <<>>
    /\ out = <<>>
    /\ exPc = "idle"

(***************************************************************************)
(* importer.py: parse_lcsc_category.                                       *)
(***************************************************************************)
\* the literal "Provider:" of the pattern, one token of the text
Marker == "Provider:"

TextAlphabet == {Marker, " ", NL, "-", ">", "a"}

\* the number of whitespace characters of t from position p on
RECURSIVE WsRun(_, _)
WsRun(t, p) == IF p <= Len(t) /\ IsSpace(t[p]) THEN 1 + WsRun(t, p + 1) ELSE 0

\* Where group 1 of Provider:\s*(.+) starts when the marker is at i, 0 when
\* the pattern does not match there: \s* is greedy and gives characters
\* back until (.+) finds one character that is not a newline.
GroupStart(t, i) ==
    LET k == WsRun(t, i + 1)
        starts == {j \in (i + 1)..(i + 1 + k) : j <= Len(t) /\ t[j] # NL}
    IN  IF starts = {} THEN 0 ELSE Max(starts)

\* (.+) as it would match with re.DOTALL: to the end of the text
GroupEndWholeText(t, j) == Len(t)

\* (.+) is greedy and stops before the next newline
GroupEnd(t, j) ==
    Max({e \in j..Len(t) : \A x \in j..e : t[x] # NL})

\* re.search: the leftmost position where the pattern matches, 0 when none
SearchProvider(t) ==
    LET at == {i \in 1..Len(t) : t[i] = Marker /\ GroupStart(t, i) # 0}
    IN  IF at = {} THEN 0 ELSE Min(at)

\* match.group(1)
ProviderGroup(t) ==
    LET j == GroupStart(t, SearchProvider(t))
    IN  SubSeq(t, j, GroupEnd(t, j))

parse_lcsc_category(t) ==
    IF SearchProvider(t) = 0
    THEN <<<<>>, <<>>>>
    ELSE LET category_text == Strip(ProviderGroup(t))
             segments == StripAll(SplitArrow(category_text))
         IN  IF Len(segments) = 1
             THEN <<<<>>, segments[1]>>
             ELSE <<segments[1], segments[Len(segments)]>>

CatInit ==
    /\ help_text \in SeqsUpTo(TextAlphabet, MaxTextLen)
    /\ catPc = "call"
    /\ catResult = <<<<>>, <<>>>>

ParseCategory ==
    /\ catPc = "call"
    /\ catResult' = parse_lcsc_category(help_text)
    /\ catPc' = "returned"
    /\ UNCHANGED <<help_text, exVars, mainVars>>

InitCategory == CatInit /\ ExIdle /\ MainIdle

SpecCategory == InitCategory /\ [][ParseCategory]_vars

\* C10: whenever parse_lcsc_category finds the "Provider:" marker (it does
\* not take the marker-absent branch), the returned leaf is non-empty.
C10_LeafNonEmpty ==
    (catPc = "returned" /\ SearchProvider(help_text) # 0) => catResult[2] # <<>>

\* the position of the first "Provider:" marker of the text, 0 when absent
FirstMarker(t) ==
    LET at == {i \in 1..Len(t) : t[i] = Marker}
    IN  IF at = {} THEN 0 ELSE Min(at)

\* all the text after the first marker
AfterMarker(t) == SubSeq(t, FirstMarker(t) + 1, Len(t))

\* the text up to its first newline
FirstLine(s) ==
    LET nls == {i \in 1..Len(s) : s[i] = NL}
    IN  IF nls = {} THEN s ELSE SubSeq(s, 1, Min(nls) - 1)

\* the (parent, leaf) of a remainder: split on "->", each segment trimmed,
\* the first and the last segment kept
PathOf(remainder) ==
    LET segs == SplitArrow(remainder)
    IN  IF Len(segs) = 1
        THEN <<<<>>, Strip(segs[1])>>
        ELSE <<Strip(segs[1]), Strip(segs[Len(segs)])>>

\* C12 as stated: ("", "") when the marker is absent; otherwise the path of
\* the whole remainder after the marker; and the parent is empty when the
\* text holds no "->".
C12_WholeRemainder ==
    (catPc = "returned") =>
        /\ catResult = IF FirstMarker(help_text) = 0
                       THEN <<<<>>, <<>>>>
                       ELSE PathOf(AfterMarker(help_text))
        /\ (~Contains(help_text, Arrow) => catResult[1] = <<>>)

\* C12, amended: ("", "") when the marker is absent; otherwise the path of
\* the remainder that runs from the first non-whitespace character after
\* the marker to the end of that line; and the parent is empty when the
\* text holds no "->".
C12_RemainderOfLine ==
    (catPc = "returned") =>
        /\ catResult = IF FirstMarker(help_text) = 0
                       THEN <<<<>>, <<>>>>
                       ELSE PathOf(FirstLine(LStrip(AfterMarker(help_text))))
        /\ (~Contains(help_text, Arrow) => catResult[1] = <<>>)

\* a text was parsed whose remainder has more than two segments and goes on
\* after a newline
C12_Witness ==
    /\ catPc = "returned"
    /\ FirstMarker(help_text) # 0
    /\ Len(SplitArrow(FirstLine(LStrip(AfterMarker(help_text))))) >= 3
    /\ \E i \in 1..Len(help_text) : help_text[i] = NL /\ i > FirstMarker(help_text)

(***************************************************************************)
(* convert-lcsc-export.py: extract_lcsc_and_quantity.                      *)
(***************************************************************************)
\* Python's None, which is no text
None == <<"<None>">>

ColLcsc == "LCSC Part Number"

ColQty == "Quantity"

HeaderPool ==
    { <<ColLcsc, ColQty>>, <<ColQty, ColLcsc>>, <<ColLcsc, "Comment">>,
      <<"Comment", ColLcsc, ColQty>> }

CellPool == { <<>>, <<" ">>, <<" ", "C", "1">>, <<"5", " ">> }

\* One row of csv.DictReader: dict(zip(fieldnames, row)), a key of a later
\* column replacing an equal earlier one, and restval (None) under every
\* field name the row has no cell for. Cells beyond the header go under the
\* key None, which no lookup here reads.
DictHas(names, key) == \E i \in 1..Len(names) : names[i] = key

DictValue(names, row, key) ==
    LET i == Max({x \in 1..Len(names) : names[x] = key})
    IN  IF i <= Len(row) THEN row[i] ELSE None

\* row.get(key, "")
RowGet(names, row, key) ==
    IF DictHas(names, key) THEN DictValue(names, row, key) ELSE <<>>

\* f"{lcsc},{qty}" (the newline ends the line)
OutLine(lcsc, qty) == lcsc \o <<",">> \o qty

ExInit ==
    /\ fieldnames \in HeaderPool
    /\ rowsRead = <<>>
    /\ out = <<>>
    /\ exPc = "reading"

\* one iteration of "for row in reader"; the reader itself skips a row
\* without cells (a blank line)
ExtractRow ==
    /\ exPc = "reading"
    /\ Len(rowsRead) < MaxTableRows
    /\ \E row \in SeqsUpTo(CellPool, MaxCells) :
        /\ rowsRead' = Append(rowsRead, row)
        /\ IF row = <<>>
           THEN UNCHANGED <<out, exPc>>
           ELSE LET lcscRaw == RowGet(fieldnames, row, ColLcsc)
                    qtyRaw == RowGet(fieldnames, row, ColQty)
                IN  IF lcscRaw = None \/ qtyRaw = None
                    THEN \* None.strip(): AttributeError, not caught
                         /\ exPc' = "raised"
                         /\ UNCHANGED out
                    ELSE LET lcsc == Strip(lcscRaw)
                             qty == Strip(qtyRaw)
                         IN  /\ out' = IF lcsc # <<>> /\ qty # <<>>
                                       THEN Append(out, OutLine(lcsc, qty))
                                       ELSE out
                             /\ UNCHANGED exPc
    /\ UNCHANGED <<fieldnames, catVars, mainVars>>

\* the reader is exhausted; out is closed
ExtractEnd ==
    /\ exPc = "reading"
    /\ exPc' = "done"
    /\ UNCHANGED <<fieldnames, rowsRead, out, catVars, mainVars>>

ExNext == ExtractRow \/ ExtractEnd

InitExtract == ExInit /\ CatIdle /\ MainIdle

SpecExtract == InitExtract /\ [][ExNext]_vars

\* the cell of a row under a column name, absent when the header has no
\* such column or the row is too short
FieldPresent(names, row, key) ==
    \E i \in 1..Len(names) : names[i] = key /\ i <= Len(row)

FieldText(names, row, key) ==
    row[CHOOSE i \in 1..Len(names) : names[i] = key /\ i <= Len(row)]

BothNonBlank(names, row) ==
    /\ FieldPresent(names, row, ColLcsc)
    /\ FieldPresent(names, row, ColQty)
    /\ Strip(FieldText(names, row, ColLcsc)) # <<>>
    /\ Strip(FieldText(names, row, ColQty)) # <<>>

RECURSIVE ExpectedLines(_, _)
ExpectedLines(names, rows) ==
    IF rows = <<>>
    THEN <<>>
    ELSE LET row == rows[Len(rows)]
             before == ExpectedLines(names, SubSeq(rows, 1, Len(rows) - 1))
         IN  IF BothNonBlank(names, row)
             THEN Append(before, OutLine(Strip(FieldText(names, row, ColLcsc)),
                                         Strip(FieldText(names, row, ColQty))))
             ELSE before

\* C8: the extractor raises no error on any row, and its output is exactly
\* one line "<identifier>,<quantity>" per row read whose two fields are
\* present and non-blank after trimming, in row order.
C8_CountAndDrop ==
    (exPc \in {"reading", "raised", "done"}) =>
        /\ exPc # "raised"
        /\ out = ExpectedLines(fieldnames, rowsRead)

(***************************************************************************)
(* importer.py: load_parts_csv.                                            *)
(***************************************************************************)
\* re.match(r'^C\d+$', s): a C and one or more digits; $ also matches
\* before one final newline
IdMatches(s) ==
    LET core == IF s # <<>> /\ s[Len(s)] = NL THEN SubSeq(s, 1, Len(s) - 1) ELSE s
    IN  /\ Len(core) >= 2
        /\ core[1] = "C"
        /\ \A i \in 2..Len(core) : core[i] \in Digits

\* the text after an optional sign
Unsigned(s) == IF s # <<>> /\ s[1] \in {"+", "-"} THEN Tail(s) ELSE s

\* int(s) does not raise ValueError: optional whitespace around an optional
\* sign and digits, single underscores allowed between digits
IsIntText(s) ==
    LET b == Unsigned(Strip(s))
    IN  /\ b # <<>>
        /\ \A i \in 1..Len(b) : b[i] \in Digits \cup {"_"}
        /\ b[1] \in Digits
        /\ b[Len(b)] \in Digits
        /\ \A i \in 1..(Len(b) - 1) : ~(b[i] = "_" /\ b[i + 1] = "_")

DigitValue(c) ==
    CASE c = "0" -> 0 [] c = "1" -> 1 [] c = "2" -> 2 [] c = "3" -> 3
      [] c = "4" -> 4 [] c = "5" -> 5 [] c = "6" -> 6 [] c = "7" -> 7
      [] c = "8" -> 8 [] c = "9" -> 9

RECURSIVE DigitsValue(_)
DigitsValue(b) ==
    IF b = <<>>
    THEN 0
    ELSE LET c == b[Len(b)]
             before == DigitsValue(SubSeq(b, 1, Len(b) - 1))
         IN  IF c = "_" THEN before ELSE 10 * before + DigitValue(c)

\* int(s), for a text int accepts
IntValue(s) ==
    LET t == Strip(s)
        v == DigitsValue(Unsigned(t))
    IN  IF t[1] = "-" THEN 0 - v ELSE v

\* the loop body with "len(row) < 2" as the test of the field count
LoadRowAtLeastTwo(acc, row) ==
    IF Len(row) < 2
    THEN acc
    ELSE LET lcsc_id == Strip(row[1])
             amount == Strip(row[2])
         IN  IF ~IdMatches(lcsc_id)
             THEN acc
             ELSE IF IsIntText(amount)
                  THEN Append(acc, <<lcsc_id, IntValue(amount)>>)
                  ELSE acc

\* the body of "for row in reader": the list with what the row appends
LoadRow(acc, row) ==
    IF Len(row) # 2
    THEN acc
    ELSE LET lcsc_id == Strip(row[1])
             amount == Strip(row[2])
         IN  IF ~IdMatches(lcsc_id)
             THEN acc
             ELSE IF IsIntText(amount)
                  THEN Append(acc, <<lcsc_id, IntValue(amount)>>)
                  ELSE acc

RECURSIVE load_parts_csv(_)
load_parts_csv(rows) ==
    IF rows = <<>>
    THEN <<>>
    ELSE LoadRow(load_parts_csv(SubSeq(rows, 1, Len(rows) - 1)), rows[Len(rows)])

(***************************************************************************)
(* The inputs of a run: the CSV file and the catalog before the first run. *)
(***************************************************************************)
IdC1 == <<"C", "1">>

IdC19 == <<"C", "1", "9">>

RowPool ==
    { <<IdC1, <<"1", "0">>>>,
      <<<<" ", "C", "1", "9">>, <<"-", "5", " ">>>>,
      <<<<"1", "9">>, <<"1">>>> }

\* a supplier link of a record's page: the site and the supplier code of its
\* href, and its displayed text
Link(site, code, text) == [site |-> site, code |-> code, text |-> text]

RecordPool ==
    { <<Link("lcsc.com", IdC19, IdC19), Link("lcsc.com", IdC1, <<" ", "C", "1", NL>>)>>,
      <<Link("lcsc.com", IdC1, <<"c", "1">>)>>,
      <<Link("other.com", IdC1, IdC1)>> }

(***************************************************************************)
(* importer.py: main, authenticate, cleanup.                               *)
(***************************************************************************)
\* LCSCImporter.__init__ and the start of main
NewRun ==
    /\ pc = "authenticate"
    /\ exit_code = -1
    /\ launched = FALSE
    /\ session = "none"
    /\ parts = <<>>
    /\ idx = 0
    /\ success_count = 0
    /\ skipped_count = 0
    /\ fail_count = 0
    /\ failed_parts = <<>>
    /\ results = <<>>
    /\ link_i = 0
    /\ on_search = FALSE
    /\ exists = "unknown"
    /\ inspected = {}
    /\ check_err = "none"
    /\ attempted = FALSE
    /\ log = <<>>
    /\ outcomes = <<>>
    /\ auth_err_at = 0
    /\ faults = FALSE

MainInit ==
    /\ \/ csv_exists = FALSE /\ csv_rows = <<>>
       \/ csv_exists = TRUE /\ csv_rows \in SeqsUpTo(RowPool, MaxCsvRows)
    /\ catalog \in SeqsUpTo(RecordPool, MaxPreexisting)
    /\ run = 1
    /\ first_outcomes = <<>>
    /\ NewRun

\* sys.exit(1), or main's "except Exception" handler, which exits with 1
Exit1 ==
    /\ pc' = "exited"
    /\ exit_code' = 1

\* authenticate returns: the account page loaded and is not the login page
AuthenticateOk ==
    /\ pc = "authenticate"
    /\ launched' = TRUE
    /\ session' = "valid"
    /\ pc' = "load"
    /\ UNCHANGED <<catVars, exVars, inputVars, catalog, run, exit_code, parts, idx, tallyVars,
                   checkVars, attempted, log, outcomes, first_outcomes,
                   auth_err_at, faults>>

\* authenticate does not return: the login page does not load (main's
\* handler), the account page times out, or it redirects to the login page
AuthenticateFails ==
    /\ pc = "authenticate"
    /\ launched' = TRUE
    /\ faults' = TRUE
    /\ Exit1
    /\ UNCHANGED <<catVars, exVars, inputVars, catalog, session, run, parts, idx, tallyVars,
                   checkVars, attempted, log, outcomes, first_outcomes,
                   auth_err_at>>

\* parts = importer.load_parts_csv(), and main's test of the list
LoadCsv ==
    /\ pc = "load"
    /\ IF ~csv_exists
       THEN /\ Exit1
            /\ UNCHANGED <<parts, idx>>
       ELSE LET loaded == load_parts_csv(csv_rows)
            IN  /\ parts' = loaded
                /\ IF loaded = <<>>
                   THEN /\ Exit1
                        /\ UNCHANGED idx
                   ELSE /\ pc' = "loop"
                        /\ idx' = 1
                        /\ UNCHANGED exit_code
    /\ UNCHANGED <<catVars, exVars, inputVars, catalog, session, run, launched, tallyVars,
                   checkVars, attempted, log, outcomes, first_outcomes,
                   auth_err_at, faults>>

(***************************************************************************)
(* importer.py: import_parts, process_single_part, check_part_exists.      *)
(* The catalog is the external web application: a keyword search lists the *)
(* records one of whose supplier links holds the keyword, in an order the  *)
(* catalog chooses; any request to it may fail; its session may expire.    *)
(***************************************************************************)
\* the set S of numbers as a list, in ascending order
RECURSIVE Ascending(_)
Ascending(S) == IF S = {} THEN <<>> ELSE <<Min(S)>> \o Ascending(S \ {Min(S)})

Reversed(q) == [i \in 1..Len(q) |-> q[Len(q) + 1 - i]]

\* the orders in which the result table lists the records S: by record
\* id, in either direction
Orders(S) == {Ascending(S), Reversed(Ascending(S))}

\* the records the catalog's keyword search finds
SearchHits(keyword) ==
    {i \in 1..Len(catalog) :
        \E k \in 1..Len(catalog[i]) :
            \/ Contains(catalog[i][k].code, keyword)
            \/ Contains(catalog[i][k].text, keyword)}

\* what the search page can list: nothing but the login form once the
\* session has expired
SearchPages(keyword) ==
    IF session = "valid" THEN Orders(SearchHits(keyword)) ELSE {<<>>}

\* page.locator('a[href*="lcsc.com"][href*="{lcsc_id}"]').all() on the
\* suppliers page of a record
LcscSelected(l, lcsc_id) == l.site = "lcsc.com" /\ Contains(l.code, lcsc_id)

lcsc_links(part_id, lcsc_id) ==
    SelectSeq(catalog[part_id], LAMBDA l : LcscSelected(l, lcsc_id))

\* the test of one link, with a prefix test in place of the equality
LinkTextMatchesPrefix(link_text, lcsc_id) == OccursAt(Strip(link_text), lcsc_id, 1)

\* link_text = lcsc_link.inner_text().strip(); link_text == lcsc_id
LinkTextMatches(link_text, lcsc_id) == Strip(link_text) = lcsc_id

\* The href that part_links[link_i] gives. Locator.all() returns the
\* locators nth(0), nth(1), ..., each resolved when it is used, against the
\* page shown then: on the search page that is the i-th result; after a
\* goto to a suppliers page it is whatever i-th part link that page holds:
\* none (-1: get_attribute times out), one without a numeric id (0), or
\* that of any record.
LinkHrefs ==
    IF on_search THEN {results[link_i]} ELSE (-1)..Len(catalog)

\* the identifier of the request being processed
CurrentId == parts[idx][1]

\* import_parts, with the count of a failed part left out of failed_parts
ImportTallyNoAppend(status, lcsc_id) ==
    /\ success_count' = IF status = "success" THEN success_count + 1 ELSE success_count
    /\ skipped_count' = IF status = "skipped" THEN skipped_count + 1 ELSE skipped_count
    /\ fail_count' = IF status \notin {"success", "skipped"} THEN fail_count + 1 ELSE fail_count
    /\ UNCHANGED failed_parts

\* import_parts: the tally of one returned status
ImportTally(status, lcsc_id) ==
    /\ success_count' = IF status = "success" THEN success_count + 1 ELSE success_count
    /\ skipped_count' = IF status = "skipped" THEN skipped_count + 1 ELSE skipped_count
    /\ fail_count' = IF status \notin {"success", "skipped"} THEN fail_count + 1 ELSE fail_count
    /\ failed_parts' = IF status \notin {"success", "skipped"}
                       THEN Append(failed_parts, lcsc_id)
                       ELSE failed_parts

\* process_single_part returns status; import_parts tallies it and goes on
Finish(status) ==
    /\ outcomes' = Append(outcomes, status)
    /\ ImportTally(status, CurrentId)
    /\ idx' = idx + 1
    /\ pc' = "loop"

\* check_part_exists returns False; process_single_part goes on to create
ReturnNotFound ==
    /\ exists' = "False"
    /\ pc' = "create"
    /\ UNCHANGED <<idx, tallyVars, outcomes>>

\* the next request: process_single_part calls check_part_exists, which
\* loads the search page and collects its part links
CheckSearch ==
    /\ pc = "loop"
    /\ idx <= Len(parts)
    /\ log' = Append(log, CurrentId)
    /\ inspected' = {}
    /\ check_err' = "none"
    /\ attempted' = FALSE
    /\ \E part_links \in SearchPages(CurrentId) :
        /\ results' = part_links
        /\ IF part_links = <<>>
           THEN /\ ReturnNotFound
                /\ UNCHANGED <<link_i, on_search>>
           ELSE /\ link_i' = 1
                /\ on_search' = TRUE
                /\ exists' = "unknown"
                /\ pc' = "candidates"
                /\ UNCHANGED <<idx, tallyVars, outcomes>>
    /\ UNCHANGED <<catVars, exVars, inputVars, catalog, session, run, exit_code, launched, parts,
                   first_outcomes, auth_err_at, faults>>

\* the same, with the error of the search raised to process_single_part,
\* whose handler returns "failed"
CheckSearchErrorPropagates ==
    /\ pc = "loop"
    /\ idx <= Len(parts)
    /\ log' = Append(log, CurrentId)
    /\ inspected' = {}
    /\ check_err' = "fault"
    /\ attempted' = FALSE
    /\ faults' = TRUE
    /\ results' = <<>>
    /\ link_i' = 0
    /\ on_search' = FALSE
    /\ exists' = "unknown"
    /\ Finish("failed")
    /\ UNCHANGED <<catVars, exVars, inputVars, catalog, session, run, exit_code, launched, parts,
                   first_outcomes, auth_err_at>>

\* the next request, the search page failing to load: the except clause of
\* check_part_exists returns False
CheckSearchError ==
    /\ pc = "loop"
    /\ idx <= Len(parts)
    /\ log' = Append(log, CurrentId)
    /\ inspected' = {}
    /\ check_err' = "fault"
    /\ attempted' = FALSE
    /\ faults' = TRUE
    /\ results' = <<>>
    /\ link_i' = 0
    /\ on_search' = FALSE
    /\ ReturnNotFound
    /\ UNCHANGED <<catVars, exVars, inputVars, catalog, session, run, exit_code, launched, parts,
                   first_outcomes, auth_err_at>>

\* the end of one iteration of "for link in part_links" that found no match
NextCandidate ==
    /\ link_i' = link_i + 1
    /\ IF link_i + 1 > Len(results)
       THEN ReturnNotFound
       ELSE UNCHANGED <<pc, exists, idx, tallyVars, outcomes>>

\* one iteration of "for link in part_links"
CheckCandidate ==
    /\ pc = "candidates"
    /\ \E href \in LinkHrefs :
        IF href = -1
        THEN \* the locator finds no element: TimeoutError, caught
             /\ check_err' = "stale"
             /\ ReturnNotFound
             /\ UNCHANGED <<link_i, on_search, inspected>>
        ELSE IF href = 0
        THEN \* "if not match: continue"
             /\ NextCandidate
             /\ UNCHANGED <<on_search, inspected, check_err>>
        ELSE LET links == lcsc_links(href, CurrentId)
                 hits == {k \in 1..Len(links) :
                             LinkTextMatches(links[k].text, CurrentId)}
                 seen == IF hits = {} THEN Len(links) ELSE Min(hits)
             IN  /\ on_search' = FALSE
                 /\ inspected' = inspected \cup {links[k].text : k \in 1..seen}
                 /\ UNCHANGED check_err
                 /\ IF hits # {}
                    THEN /\ exists' = "True"
                         /\ Finish("skipped")
                         /\ UNCHANGED link_i
                    ELSE NextCandidate
    /\ UNCHANGED <<catVars, exVars, inputVars, catalog, session, run, exit_code, launched, parts,
                   results, attempted, log, first_outcomes, auth_err_at, faults>>

\* one iteration whose suppliers page fails to load: caught, returns False
CheckCandidateError ==
    /\ pc = "candidates"
    /\ LinkHrefs \cap (1..Len(catalog)) # {}
    /\ check_err' = "fault"
    /\ faults' = TRUE
    /\ on_search' = FALSE
    /\ ReturnNotFound
    /\ UNCHANGED <<catVars, exVars, inputVars, catalog, session, run, exit_code, launched, parts,
                   results, link_i, inspected, attempted, log, first_outcomes,
                   auth_err_at>>

\* the create page loads, the form is filled and saved: "success"; the
\* catalog then holds a record whose LCSC link shows the identifier
CreateSucceeds ==
    /\ pc = "create"
    /\ session = "valid"
    /\ attempted' = TRUE
    /\ catalog' = Append(catalog, <<Link("lcsc.com", CurrentId, CurrentId)>>)
    /\ Finish("success")
    /\ UNCHANGED <<catVars, exVars, inputVars, session, run, exit_code, launched, parts,
                   checkVars, log, first_outcomes, auth_err_at, faults>>

\* the create page or a step of the form fails: "failed"
CreateFails ==
    /\ pc = "create"
    /\ session = "valid"
    /\ attempted' = TRUE
    /\ faults' = TRUE
    /\ Finish("failed")
    /\ UNCHANGED <<catVars, exVars, inputVars, catalog, session, run, exit_code, launched, parts,
                   checkVars, log, first_outcomes, auth_err_at>>

\* the create page redirects to the login page: "Session expired", "failed"
CreateSessionExpired ==
    /\ pc = "create"
    /\ session = "expired"
    /\ attempted' = TRUE
    /\ auth_err_at' = Len(log)
    /\ Finish("failed")
    /\ UNCHANGED <<catVars, exVars, inputVars, catalog, session, run, exit_code, launched, parts,
                   checkVars, log, first_outcomes, faults>>

\* the catalog ends the session; the importer sees it at its next request
\* for a search page or a create page
SessionExpires ==
    /\ pc \in {"loop", "create"}
    /\ session = "valid"
    /\ session' = "expired"
    /\ faults' = TRUE
    /\ UNCHANGED <<catVars, exVars, inputVars, catalog, run, pc, exit_code, launched, parts, idx,
                   tallyVars, checkVars, attempted, log, outcomes,
                   first_outcomes, auth_err_at>>

\* the loop is over: importer.cleanup(), and main returns
Cleanup ==
    /\ pc = "loop"
    /\ idx > Len(parts)
    /\ pc' = "exited"
    /\ exit_code' = 0
    /\ UNCHANGED <<catVars, exVars, inputVars, catalog, session, run, launched, parts, idx,
                   tallyVars, checkVars, attempted, log, outcomes,
                   first_outcomes, auth_err_at, faults>>

\* the importer is run a second time on the same file, against the catalog
\* as the first run left it; the runs followed up are those after a first
\* run that imported every part
Rerun ==
    /\ pc = "exited"
    /\ exit_code = 0
    /\ run = 1
    /\ \A i \in 1..Len(outcomes) : outcomes[i] = "success"
    /\ run' = 2
    /\ first_outcomes' = outcomes
    /\ pc' = "authenticate"
    /\ exit_code' = -1
    /\ launched' = FALSE
    /\ session' = "none"
    /\ parts' = <<>>
    /\ idx' = 0
    /\ success_count' = 0
    /\ skipped_count' = 0
    /\ fail_count' = 0
    /\ failed_parts' = <<>>
    /\ results' = <<>>
    /\ link_i' = 0
    /\ on_search' = FALSE
    /\ exists' = "unknown"
    /\ inspected' = {}
    /\ check_err' = "none"
    /\ attempted' = FALSE
    /\ log' = <<>>
    /\ outcomes' = <<>>
    /\ auth_err_at' = 0
    /\ faults' = FALSE
    /\ UNCHANGED <<catVars, exVars, inputVars, catalog>>

Next ==
    \/ AuthenticateOk
    \/ AuthenticateFails
    \/ LoadCsv
    \/ CheckSearch
    \/ CheckSearchError
    \/ CheckCandidate
    \/ CheckCandidateError
    \/ CreateSucceeds
    \/ CreateFails
    \/ CreateSessionExpired
    \/ SessionExpires
    \/ Cleanup
    \/ Rerun

Init == MainInit /\ CatIdle /\ ExIdle

Spec == Init /\ [][Next]_vars

(***************************************************************************)
(* Properties of the importer.                                             *)
(***************************************************************************)
\* the identifier the current (or last) call of check_part_exists was given
CheckTarget == log[Len(log)]

\* C1: check_part_exists returns True only if a supplier link it inspected
\* has a displayed text that, trimmed, equals the target exactly; a text
\* that only contains the target never makes it return True.
C1_ExactMatchOnly ==
    (exists = "True") => \E t \in inspected : Strip(t) = CheckTarget

\* a check returned True after it also inspected a link whose text contains
\* the target without being equal to it
C1_Witness ==
    /\ exists = "True"
    /\ \E t \in inspected : Contains(t, CheckTarget) /\ Strip(t) # CheckTarget

\* record r shows the target in one of the links the check selects
RecordShows(r, target) ==
    \E k \in 1..Len(catalog[r]) :
        /\ LcscSelected(catalog[r][k], target)
        /\ Strip(catalog[r][k].text) = target

\* C2: when no error occurred and some candidate of the search results, at
\* any position, has a supplier link showing the target, check_part_exists
\* returns True.
C2_EveryCandidateInspected ==
    ( /\ exists # "unknown"
      /\ check_err = "none"
      /\ \E i \in 1..Len(results) : RecordShows(results[i], CheckTarget) )
    => exists = "True"

\* the identifiers of the first n requests, in input order
RECURSIVE IdsOf(_, _)
IdsOf(ps, n) == IF n = 0 THEN <<>> ELSE Append(IdsOf(ps, n - 1), ps[n][1])

\* the identifiers, among the first n processed, whose status was "failed"
RECURSIVE FailedIds(_, _, _)
FailedIds(ids, sts, n) ==
    IF n = 0
    THEN <<>>
    ELSE IF sts[n] = "failed"
         THEN Append(FailedIds(ids, sts, n - 1), ids[n])
         ELSE FailedIds(ids, sts, n - 1)

\* C3: import_parts processes each request once, in input order, whatever
\* fails; no failure ends the run; the three counts add up to the number of
\* requests processed (all of them when the loop completes) and
\* failed_parts holds the failed identifiers in input order.
C3_ContinueOnFailure ==
    /\ Len(log) <= Len(parts)
    /\ log = IdsOf(parts, Len(log))
    /\ Len(outcomes) \in {Len(log), Len(log) - 1}
    /\ success_count + skipped_count + fail_count = Len(outcomes)
    /\ fail_count = Len(failed_parts)
    /\ failed_parts = FailedIds(log, outcomes, Len(outcomes))
    /\ (exit_code = 0 => Len(outcomes) = Len(parts))
    /\ (exit_code = 1 => outcomes = <<>>)

\* a run completed in which a request failed and a later one was imported
C3_Witness ==
    /\ exit_code = 0
    /\ \E i, j \in 1..Len(outcomes) :
        i < j /\ outcomes[i] = "failed" /\ outcomes[j] = "success"

\* C4: a second run over the same input, after a first run that classified
\* every item as Created, classifies every item as Skipped. (Stated for
\* second runs in which the catalog never failed and the session held.)
C4_Idempotent ==
    ( /\ run = 2
      /\ exit_code = 0
      /\ ~faults
      /\ \A i \in 1..Len(first_outcomes) : first_outcomes[i] = "success" )
    => \A i \in 1..Len(outcomes) : outcomes[i] = "skipped"

\* C5: once a session error is detected while an item is processed, the run
\* is aborted: no further request is processed and the run does not end
\* normally.
C5_AuthErrorsFatal ==
    (auth_err_at # 0) => (Len(log) = auth_err_at /\ exit_code # 0)

\* C6: when the input yields no valid request, the run makes no external
\* call and does not end with status 0.
C6_EmptyInputBeforeCalls ==
    (csv_exists /\ load_parts_csv(csv_rows) = <<>>) => (~launched /\ exit_code # 0)

\* C7: when the duplicate check raises an error, check_part_exists returns
\* False and process_single_part goes on to request the create page: the
\* item is not failed for it and the run is not aborted.
C7_CheckErrorMeansCreate ==
    (check_err # "none") =>
        /\ exists = "False"
        /\ (pc = "create" \/ attempted)
        /\ exit_code # 1

\* a suppliers page failed to load, and the part was then imported
C7_Witness ==
    /\ check_err = "fault"
    /\ results # <<>>
    /\ attempted
    /\ outcomes # <<>>
    /\ outcomes[Len(outcomes)] = "success"

\* C9: every request load_parts_csv returns has a non-negative quantity.
C9_NonNegativeQuantity ==
    \A i \in 1..Len(parts) : parts[i][2] >= 0

(***************************************************************************)
(* importer.py: load_parts_csv, row by row, on rows of any shape.          *)
(***************************************************************************)
\* first fields of a row
IdFieldPool ==
    { <<"C", "1", "2", "3", "4", "5">>, <<" ", "C", "1", " ">>,
      <<"1", "2", "3", "4", "5">>, <<"c", "1">>, <<"C">>, <<"C", "1", "a">>,
      <<"C", " ", "1">>, <<>> }

\* second fields of a row
QtyFieldPool ==
    { <<"1", "0">>, <<" ", "7", NL>>, <<"-", "5">>, <<"+", "3">>,
      <<"1", "_", "0">>, <<"a", "b", "c">>, <<"1", " ", "0">>, <<"_", "1">>,
      <<"-">>, <<>> }

\* the rows csv.reader can give: two fields, or another number of them
LoadRows ==
    {<<f, g>> : f \in IdFieldPool, g \in QtyFieldPool}
        \cup { <<>>, <<<<"C", "1", "2", "3", "4", "5">>>>,
               <<<<"C", "1", "2", "3", "4", "5">>, <<"1", "0">>, <<"1", "0">>>> }

InitLoad ==
    /\ csv_exists = TRUE
    /\ csv_rows = <<>>
    /\ parts = <<>>
    /\ pc = "reading"
    /\ catalog = <<>>
    /\ session = "none"
    /\ run = 0
    /\ exit_code = -1
    /\ launched = FALSE
    /\ idx = 0
    /\ success_count = 0
    /\ skipped_count = 0
    /\ fail_count = 0
    /\ failed_parts = <<>>
    /\ results = <<>>
    /\ link_i = 0
    /\ on_search = FALSE
    /\ exists = "unknown"
    /\ inspected = {}
    /\ check_err = "none"
    /\ attempted = FALSE
    /\ log = <<>>
    /\ outcomes = <<>>
    /\ first_outcomes = <<>>
    /\ auth_err_at = 0
    /\ faults = FALSE
    /\ CatIdle
    /\ ExIdle

\* one iteration of "for row in reader"
ReadRow ==
    /\ pc = "reading"
    /\ Len(csv_rows) < MaxCsvRows
    /\ \E row \in LoadRows :
        /\ csv_rows' = Append(csv_rows, row)
        /\ parts' = LoadRow(parts, row)
    /\ UNCHANGED <<catVars, exVars, csv_exists, catalog, session, run, pc,
                   exit_code, launched, idx, tallyVars, checkVars, attempted,
                   log, outcomes, first_outcomes, auth_err_at, faults>>

\* the reader is exhausted: "return parts"
ReadEnd ==
    /\ pc = "reading"
    /\ pc' = "loaded"
    /\ UNCHANGED <<catVars, exVars, inputVars, catalog, session, run,
                   exit_code, launched, parts, idx, tallyVars, checkVars,
                   attempted, log, outcomes, first_outcomes, auth_err_at,
                   faults>>

NextLoad == ReadRow \/ ReadEnd

SpecLoad == InitLoad /\ [][NextLoad]_vars

\* the text is a C followed by one or more digits
IsIdentifier(s) ==
    /\ Len(s) >= 2
    /\ Head(s) = "C"
    /\ \A i \in 2..Len(s) : s[i] \in Digits

\* the text is digits, single underscores allowed between two of them
RECURSIVE IsDigitRun(_)
IsDigitRun(b) ==
    /\ b # <<>>
    /\ Head(b) \in Digits
    /\ \/ Len(b) = 1
       \/ IsDigitRun(Tail(b))
       \/ Len(b) >= 3 /\ b[2] = "_" /\ IsDigitRun(Tail(Tail(b)))

\* the text parses as an integer: an optional sign and a run of digits
ParsesAsInteger(s) ==
    IF s # <<>> /\ Head(s) \in {"+", "-"} THEN IsDigitRun(Tail(s)) ELSE IsDigitRun(s)

\* the number a digit run denotes, read from the left
RECURSIVE RunValue(_, _)
RunValue(b, v) ==
    IF b = <<>>
    THEN v
    ELSE IF Head(b) = "_"
         THEN RunValue(Tail(b), v)
         ELSE RunValue(Tail(b), 10 * v + DigitValue(Head(b)))

IntegerOf(s) ==
    IF Head(s) = "-" THEN 0 - RunValue(Tail(s), 0)
    ELSE IF Head(s) = "+" THEN RunValue(Tail(s), 0)
    ELSE RunValue(s, 0)

\* the row is one the Request Parser accepts
RowAccepted(row) ==
    /\ Len(row) = 2
    /\ IsIdentifier(Strip(row[1]))
    /\ ParsesAsInteger(Strip(row[2]))

\* the requests of the accepted rows among rows, in input order
RECURSIVE AcceptedRequests(_)
AcceptedRequests(rows) ==
    IF rows = <<>>
    THEN <<>>
    ELSE LET rest == AcceptedRequests(Tail(rows))
             row == Head(rows)
         IN  IF RowAccepted(row)
             THEN <<<<Strip(row[1]), IntegerOf(Strip(row[2]))>>>> \o rest
             ELSE rest

\* C11: load_parts_csv returns a request (identifier, quantity) for exactly
\* the rows with exactly two fields whose trimmed first field is a C and
\* digits and whose trimmed second field parses as an integer, in input
\* order; every other row is dropped and the reading goes on.
C11_AcceptedRowsInOrder ==
    (pc \in {"reading", "loaded"}) =>
        /\ parts = AcceptedRequests(csv_rows)
        /\ load_parts_csv(csv_rows) = parts

\* the list was returned for a file whose first row was dropped and whose
\* second row was accepted
C11_Witness ==
    /\ pc = "loaded"
    /\ Len(csv_rows) >= 2
    /\ ~RowAccepted(csv_rows[1])
    /\ Len(csv_rows[1]) = 2
    /\ RowAccepted(csv_rows[2])
    /\ Len(parts) = 1

====
